---- MODULE Spec2Model ----
(***************************************************************************)
(* Session token lifecycle (NextAuth jwt callback + refreshAccessToken)    *)
(* and the route guard (middleware) of swagger-general-app.                *)
(*                                                                         *)
(* Time is in milliseconds, as Date.now() gives it.  JavaScript values     *)
(* that are not plain strings are tagged: a number-valued slot holds       *)
(* [k |-> "undefined"], [k |-> "NaN"] or [k |-> "num", v |-> n].           *)
(* A string-valued slot holds UNDEF when the property is undefined.        *)
(***************************************************************************)
EXTENDS Integers, Sequences, FiniteSets, TLC

VARIABLES now, token, signedIn, call, guard, handler, conc, http, dialog, list

vars == <<now, token, signedIn, call, guard, handler, conc, http, dialog, list>>

\* the state of the session subsystem and the route guard
serverVars == <<now, token, signedIn, call, guard>>

\* the state of the browser side
clientVars == <<handler, dialog>>

\* requests of one user in flight at the same time, and the identity
\* provider's view of the refresh tokens
concVars == <<conc>>

\* the last request served by a proxy route and its answer
proxyVars == <<http>>

\* the state of the AssistantsList component
listVars == <<list>>

----------------------------------------------------------------------------
(* Bounds of the model *)

StartNow == 5000
TickMs == 1000
MaxTicks == 2
MaxLatencyTicks == 1
MaxSessionUpdates == 5

\* longest Authorization header value, in symbols
MaxHeaderLen == 4

\* longest text typed into a form field, in characters
MaxFieldLen == 1

\* submissions of the form that are followed
MaxSubmits == 3

\* most assistants the upstream API lists
MaxAssistants == 25

\* reloads of the assistants list that are followed
MaxReloads == 3

----------------------------------------------------------------------------
(* JavaScript values *)

UNDEF == "<undefined>"

Undefined == [k |-> "undefined", v |-> 0]
NaN == [k |-> "NaN", v |-> 0]
Num(n) == [k |-> "num", v |-> n]

\* !!x for a string-or-undefined x: undefined and "" are falsy
Truthy(s) == s # UNDEF /\ s # ""

\* truthiness of a number-or-undefined: undefined, NaN and 0 are falsy
TruthyNum(x) == x.k = "num" /\ x.v # 0

\* Number(x): Number(undefined) is NaN
JsNumber(x) == IF x.k = "undefined" THEN NaN ELSE x

\* x * n with n a number
JsTimes(x, n) == IF x.k = "num" THEN Num(x.v * n) ELSE NaN

\* n + x with n a number
JsPlus(n, x) == IF x.k = "num" THEN Num(n + x.v) ELSE NaN

\* n < x with n a number: any comparison with NaN is false
JsLess(n, x) == x.k = "num" /\ n < x.v

\* a || b on strings
JsOr(a, b) == IF Truthy(a) THEN a ELSE b

----------------------------------------------------------------------------
(* The Session Token Record: interface CustomJWT *)

RefreshAccessTokenError == "RefreshAccessTokenError"

MsPerSecond == 1000

AccessTokens == {"a1", "a2"}
RefreshTokens == {"r1", "r2"}
ExpiresInSeconds == {-1, 0, 1}

CustomJWT(at, exp, rt, err) ==
    [accessToken |-> at, accessTokenExpires |-> exp, refreshToken |-> rt, error |-> err]

\* the token next-auth hands to the jwt callback for a new session: none of
\* the custom fields is set
DefaultToken == CustomJWT(UNDEF, Undefined, UNDEF, UNDEF)

ExpiresValues ==
    {Undefined, NaN} \cup {Num(StartNow + d * TickMs) : d \in -1 .. 1}

RecordSet ==
    { CustomJWT(at, exp, rt, err) :
        at \in AccessTokens \cup {UNDEF},
        exp \in ExpiresValues,
        rt \in RefreshTokens \cup {UNDEF, ""},
        err \in {UNDEF, RefreshAccessTokenError} }

----------------------------------------------------------------------------
(* The identity provider *)

ExpiresInValues == {Undefined} \cup {Num(s) : s \in ExpiresInSeconds}

\* account passed to the jwt callback: absent on every call but the sign-in
NoAccount == [present |-> FALSE, access_token |-> UNDEF, refresh_token |-> UNDEF,
              expires_in |-> Undefined]

Accounts ==
    { [present |-> TRUE, access_token |-> at, refresh_token |-> rt, expires_in |-> ei] :
        at \in {"a1"},
        rt \in {UNDEF, "r1"},
        ei \in ExpiresInValues }

\* what the token endpoint does with one request:
\*   fetch rejects (network), or a response with a status and a body that is
\*   not JSON, the JSON value null, or a JSON object
IdpOutcome(net, ok, body, at, rt, ei) ==
    [network |-> net, ok |-> ok, body |-> body,
     access_token |-> at, refresh_token |-> rt, expires_in |-> ei]

NoExchange == IdpOutcome("none", FALSE, "none", UNDEF, UNDEF, Undefined)

IdpFailures ==
    { IdpOutcome("error", FALSE, "none", UNDEF, UNDEF, Undefined) }
    \cup { IdpOutcome("ok", ok, "unparsable", UNDEF, UNDEF, Undefined) : ok \in BOOLEAN }
    \cup { IdpOutcome("ok", TRUE, "null", UNDEF, UNDEF, Undefined) }
    \cup { IdpOutcome("ok", FALSE, "object", UNDEF, UNDEF, Undefined) }

IdpSuccesses ==
    { IdpOutcome("ok", TRUE, "object", at, rt, ei) :
        at \in AccessTokens \cup {UNDEF},
        rt \in {UNDEF, "", "r2"},
        ei \in ExpiresInValues }

IdpOutcomes == IdpFailures \cup IdpSuccesses

----------------------------------------------------------------------------
(* refreshAccessToken *)

\* the record both failure returns build
FailedRecord(t) ==
    [t EXCEPT !.error = RefreshAccessTokenError,
              !.accessToken = UNDEF,
              !.accessTokenExpires = Undefined,
              !.refreshToken = UNDEF]

\* mutant: the response's refresh_token is stored without the fallback
RefreshedRecord_noFallback(t, idp, tEnd) ==
    [t EXCEPT !.accessToken = idp.access_token,
              !.accessTokenExpires =
                  JsPlus(tEnd, JsTimes(JsNumber(idp.expires_in), MsPerSecond)),
              !.refreshToken = idp.refresh_token]

\* the record the success return builds; tEnd is Date.now() when the
\* response has been read
RefreshedRecord(t, idp, tEnd) ==
    [t EXCEPT !.accessToken = idp.access_token,
              !.accessTokenExpires =
                  JsPlus(tEnd, JsTimes(JsNumber(idp.expires_in), MsPerSecond)),
              !.refreshToken = JsOr(idp.refresh_token, t.refreshToken)]

\* mutant: the response status is not looked at
TryThrows_noStatusCheck(idp) ==
    \/ idp.network = "error"
    \/ idp.body = "unparsable"
    \/ idp.body = "null"

\* does the body of the try block throw
TryThrows(idp) ==
    \/ idp.network = "error"            \* await fetch(...) rejects
    \/ idp.body = "unparsable"          \* await response.json() rejects
    \/ ~idp.ok                          \* throw new Error("Failed to refresh ...")
    \/ idp.body = "null"                \* refreshedTokens.access_token on null

\* how a call ends: the record returned, or an exception (thrown = TRUE, rec
\* is then the argument), and the number of requests sent to the token endpoint
Returned(r, n) == [thrown |-> FALSE, rec |-> r, fetches |-> n]
Thrown(t, n) == [thrown |-> TRUE, rec |-> t, fetches |-> n]

\* mutant: only an undefined refreshToken is caught before the request
refreshAccessToken_undefinedOnly(t, idp, tEnd) ==
    IF t.refreshToken = UNDEF
    THEN Returned(FailedRecord(t), 0)
    ELSE IF TryThrows(idp)
         THEN Returned(FailedRecord(t), 1)
         ELSE Returned(RefreshedRecord(t, idp, tEnd), 1)

\* mutant: no catch block, the exception leaves the function
refreshAccessToken_noCatch(t, idp, tEnd) ==
    IF ~Truthy(t.refreshToken)
    THEN Returned(FailedRecord(t), 0)
    ELSE IF TryThrows(idp)
         THEN Thrown(t, 1)
         ELSE Returned(RefreshedRecord(t, idp, tEnd), 1)

refreshAccessToken(t, idp, tEnd) ==
    IF ~Truthy(t.refreshToken)
    THEN Returned(FailedRecord(t), 0)
    ELSE IF TryThrows(idp)
         THEN Returned(FailedRecord(t), 1)          \* catch (error)
         ELSE Returned(RefreshedRecord(t, idp, tEnd), 1)

----------------------------------------------------------------------------
(* callbacks.jwt *)

\* customToken after the sign-in branch
SignInRecord(t, account, tNow) ==
    IF account.present /\ Truthy(account.access_token)
    THEN [t EXCEPT !.accessToken = account.access_token,
                   !.accessTokenExpires =
                       JsPlus(tNow, JsTimes(JsNumber(account.expires_in), MsPerSecond)),
                   !.refreshToken = JsOr(account.refresh_token, "")]
    ELSE t

\* mutant: the record counts as expired one second early
NotExpired_margin(t, tNow) ==
    TruthyNum(t.accessTokenExpires) /\ JsLess(tNow + MsPerSecond, t.accessTokenExpires)

\* "token hasn't expired"
NotExpired(t, tNow) ==
    TruthyNum(t.accessTokenExpires) /\ JsLess(tNow, t.accessTokenExpires)

\* what one run of the callback did: how it ended, whether it called
\* refreshAccessToken and on which record
JwtResult(end, refreshed, refreshArg) ==
    [thrown |-> end.thrown, rec |-> end.rec, fetches |-> end.fetches,
     refreshed |-> refreshed, refreshArg |-> refreshArg]

\* the callback: tNow is Date.now() on entry, tEnd is Date.now() after the
\* token endpoint has answered (only read on the refresh path)
jwt(t, account, idp, tNow, tEnd) ==
    LET customToken == SignInRecord(t, account, tNow) IN
    IF NotExpired(customToken, tNow)
    THEN JwtResult(Returned(customToken, 0), FALSE, customToken)
    ELSE JwtResult(refreshAccessToken(customToken, idp, tEnd), TRUE, customToken)

----------------------------------------------------------------------------
(* callbacks.session and RefreshErrorHandler *)

\* the derived session view: accessToken and error copied from the record
session(t) == [accessToken |-> t.accessToken, error |-> t.error]

\* useSession's data: null, or a session object (a new object, with a new
\* identity id, on every update the SessionProvider delivers)
NullSession == [id |-> 0, accessToken |-> UNDEF, error |-> UNDEF]

SessionObject(id, t) ==
    [id |-> id, accessToken |-> session(t).accessToken, error |-> session(t).error]

\* the body of the effect: is signIn("microsoft-entra-id") called
EffectSignsIn(s) ==
    s # NullSession /\ s.error # UNDEF /\ s.error = RefreshAccessTokenError

\* useEffect(..., [session]): the effect runs when the dependency is not the
\* object of the previous render
EffectRuns(prev, next) == prev.id # next.id

----------------------------------------------------------------------------
(* middleware *)

\* pathnames are sequences of characters
P_api == <<"/", "a", "p", "i">>
P_api_assistants == <<"/", "a", "p", "i", "/", "a">>
P_apix == <<"/", "a", "p", "i", "x">>
P_root == <<"/">>
P_dashboard == <<"/", "d">>
P_d_api == <<"/", "d", "/", "a", "p", "i">>
P_signin == <<"/", "a", "p", "i", "/", "a", "u", "t", "h", "/", "s", "i", "g", "n", "i", "n">>

P_static == <<"/", "_", "n", "e", "x", "t", "/", "s", "t", "a", "t", "i", "c", "/", "c">>
P_image == <<"/", "_", "n", "e", "x", "t", "/", "i", "m", "a", "g", "e">>
P_favicon == <<"/", "f", "a", "v", "i", "c", "o", "n", ".", "i", "c", "o">>
P_faviconxico == <<"/", "f", "a", "v", "i", "c", "o", "n", "x", "i", "c", "o">>
P_favicon_icons == <<"/", "f", "a", "v", "i", "c", "o", "n", ".", "i", "c", "o", "n", "s">>

Paths == {P_api, P_api_assistants, P_apix, P_root, P_dashboard, P_d_api, P_signin,
          P_static, P_image, P_favicon, P_faviconxico, P_favicon_icons}

ApiPrefix == <<"/", "a", "p", "i">>

\* String.prototype.startsWith
StartsWith(s, p) == Len(p) <= Len(s) /\ SubSeq(s, 1, Len(p)) = p

NextResponse_next == [kind |-> "next", location |-> <<>>]
NextResponse_redirect(to) == [kind |-> "redirect", location |-> to]

\* mutant: the session test comes before the API exemption
middleware_sessionFirst(pathname, hasToken) ==
    LET isAuthenticated == hasToken IN
    IF ~isAuthenticated
    THEN NextResponse_redirect(P_signin)
    ELSE NextResponse_next

\* mutant: the session test is inverted
middleware_inverted(pathname, hasToken) ==
    LET isAuthenticated == hasToken IN
    IF StartsWith(pathname, ApiPrefix)
    THEN NextResponse_next
    ELSE IF isAuthenticated
         THEN NextResponse_redirect(P_signin)
         ELSE NextResponse_next

middleware(pathname, hasToken) ==
    LET isAuthenticated == hasToken IN
    IF StartsWith(pathname, ApiPrefix)
    THEN NextResponse_next
    ELSE IF ~isAuthenticated
         THEN NextResponse_redirect(P_signin)
         ELSE NextResponse_next

\* config.matcher: '/((?!api|_next/static|_next/image|favicon.ico).*)'.
\* ANY stands for the regular expression's "." in favicon.ico.
ANY == "<any>"

Excluded_api == <<"a", "p", "i">>
Excluded_static == <<"_", "n", "e", "x", "t", "/", "s", "t", "a", "t", "i", "c">>
Excluded_image == <<"_", "n", "e", "x", "t", "/", "i", "m", "a", "g", "e">>
Excluded_favicon == <<"f", "a", "v", "i", "c", "o", "n", ANY, "i", "c", "o">>

\* the pattern pat matches at the start of s
LooksAhead(s, pat) ==
    /\ Len(pat) <= Len(s)
    /\ \A i \in 1 .. Len(pat) : pat[i] = ANY \/ pat[i] = s[i]

\* does the middleware run for this pathname
matcher(pathname) ==
    /\ Len(pathname) >= 1
    /\ pathname[1] = "/"
    /\ LET rest == Tail(pathname) IN
           ~ \/ LooksAhead(rest, Excluded_api)
             \/ LooksAhead(rest, Excluded_static)
             \/ LooksAhead(rest, Excluded_image)
             \/ LooksAhead(rest, Excluded_favicon)

----------------------------------------------------------------------------
(* The proxy routes: /api/assistants, /api/assistant, /api/tools, /api/indexes *)

\* An Authorization header value is a sequence of symbols: "Bearer" is the
\* word Bearer, " " a space, "x" any other character.
HeaderSymbols == {"Bearer", " ", "x"}

HeaderValues == UNION { [1..n -> HeaderSymbols] : n \in 0..MaxHeaderLen }

NoHeader == [present |-> FALSE, value |-> <<>>]

Headers == {NoHeader} \cup { [present |-> TRUE, value |-> v] : v \in HeaderValues }

RECURSIVE StripLeft(_)
StripLeft(s) == IF s # <<>> /\ Head(s) = " " THEN StripLeft(Tail(s)) ELSE s

RECURSIVE StripRight(_)
StripRight(s) ==
    IF s # <<>> /\ s[Len(s)] = " " THEN StripRight(SubSeq(s, 1, Len(s) - 1)) ELSE s

\* request.headers.get("authorization"): null when absent, else the value
\* without leading and trailing whitespace
HeadersGet(h) == IF h.present THEN [h EXCEPT !.value = StripRight(StripLeft(h.value))] ELSE h

\* the separator "Bearer " starts at position i of s
SeparatorAt(s, i) == i + 1 <= Len(s) /\ s[i] = "Bearer" /\ s[i + 1] = " "

Min(S) == CHOOSE m \in S : \A k \in S : m <= k

UndefinedString == [defined |-> FALSE, value |-> <<>>]

\* s.split("Bearer ")[1]: the text between the first and the second
\* separator, undefined when s holds no separator
SplitBearer1(s) ==
    LET seps == { i \in 1..Len(s) : SeparatorAt(s, i) } IN
    IF seps = {} THEN UndefinedString
    ELSE LET start == Min(seps) + 2
             later == { i \in seps : i >= start }
             end == IF later = {} THEN Len(s) ELSE Min(later) - 1
         IN  [defined |-> TRUE, value |-> SubSeq(s, start, end)]

\* request.headers.get("authorization")?.split("Bearer ")[1]
BearerToken(h) == IF HeadersGet(h).present THEN SplitBearer1(HeadersGet(h).value)
                  ELSE UndefinedString

\* !accessToken
NoAccessToken(tok) == ~tok.defined \/ tok.value = <<>>

\* the name query parameter: null when missing
Names == {UNDEF, "", "n"}

\* the request body: JSON, or text request.json() rejects
RequestBodies == {"json", "invalid"}

\* the upstream API's answer: the call throws, or it answers with a status
\* and a body that is JSON or not
UpstreamStatuses == {200, 201, 400, 404, 500}

UpstreamThrows == [network |-> "error", status |-> 0, body |-> "none"]

Upstreams ==
    {UpstreamThrows} \cup
    { [network |-> "ok", status |-> st, body |-> b] :
        st \in UpstreamStatuses, b \in {"json", "text"} }

\* response.ok
ResponseOk(up) == up.status >= 200 /\ up.status <= 299

\* response bodies
ErrorBody(text, upstatus, detail) ==
    [kind |-> "error", text |-> text, upstatus |-> upstatus, detail |-> detail]

DataBody(up) == [kind |-> "data", text |-> "", upstatus |-> up.status, detail |-> up.body]

NoBody == [kind |-> "none", text |-> "", upstatus |-> 0, detail |-> ""]

NoAccessTokenProvided == ErrorBody("No access token provided", 0, "")

\* what a handler did: the response it returned, how many upstream calls it
\* made and with which bearer token, whether it read the name parameter and
\* the request body
Answer(status, body, calls, bearer, nameRead, bodyRead) ==
    [status |-> status, body |-> body, upstreamCalls |-> calls, bearer |-> bearer,
     nameRead |-> nameRead, bodyRead |-> bodyRead]

\* mutant: the status of the upstream response is not looked at
TryGet_noOkCheck(tok, up, failure, nameRead) ==
    IF up.network = "error"
    THEN Answer(500, ErrorBody("fetch failed", 0, ""), 1, tok.value, nameRead, FALSE)
    ELSE IF up.body # "json"
    THEN Answer(500, ErrorBody("Unexpected token", 0, ""), 1, tok.value, nameRead, FALSE)
    ELSE Answer(200, DataBody(up), 1, tok.value, nameRead, FALSE)

\* the try block shared by the GET handlers: fetch, if (!response.ok) throw
\* failure, response.json(); catch answers 500 with the error's message
TryGet(tok, up, failure, nameRead) ==
    IF up.network = "error"
    THEN Answer(500, ErrorBody("fetch failed", 0, ""), 1, tok.value, nameRead, FALSE)
    ELSE IF ~ResponseOk(up)
    THEN Answer(500, failure, 1, tok.value, nameRead, FALSE)
    ELSE IF up.body # "json"
    THEN Answer(500, ErrorBody("Unexpected token", 0, ""), 1, tok.value, nameRead, FALSE)
    ELSE Answer(200, DataBody(up), 1, tok.value, nameRead, FALSE)

\* GET /api/assistants
GET_assistants(h, up) ==
    LET accessToken == BearerToken(h) IN
    IF NoAccessToken(accessToken)
    THEN Answer(401, NoAccessTokenProvided, 0, <<>>, FALSE, FALSE)
    ELSE TryGet(accessToken, up,
                ErrorBody("Failed to fetch assistants", up.status, up.body), FALSE)

\* mutant: the request body is read before the bearer token is looked at
POST_assistants_bodyFirst(h, reqBody, up) ==
    LET accessToken == BearerToken(h) IN
    IF reqBody # "json"
    THEN Answer(500, NoBody, 0, <<>>, FALSE, TRUE)
    ELSE IF NoAccessToken(accessToken)
    THEN Answer(401, NoAccessTokenProvided, 0, <<>>, FALSE, TRUE)
    ELSE IF up.network = "error"
    THEN Answer(500, ErrorBody("fetch failed", 0, ""), 1, accessToken.value, FALSE, TRUE)
    ELSE IF up.body # "json"
    THEN Answer(500, ErrorBody("Unexpected token", 0, ""), 1, accessToken.value, FALSE, TRUE)
    ELSE Answer(up.status, DataBody(up), 1, accessToken.value, FALSE, TRUE)

\* POST /api/assistants: request.json() is awaited outside the try block;
\* the upstream status is returned as it came
POST_assistants(h, reqBody, up) ==
    LET accessToken == BearerToken(h) IN
    IF NoAccessToken(accessToken)
    THEN Answer(401, NoAccessTokenProvided, 0, <<>>, FALSE, FALSE)
    ELSE IF reqBody # "json"
    THEN Answer(500, NoBody, 0, <<>>, FALSE, TRUE)       \* uncaught rejection
    ELSE IF up.network = "error"
    THEN Answer(500, ErrorBody("fetch failed", 0, ""), 1, accessToken.value, FALSE, TRUE)
    ELSE IF up.body # "json"
    THEN Answer(500, ErrorBody("Unexpected token", 0, ""), 1, accessToken.value, FALSE, TRUE)
    ELSE Answer(up.status, DataBody(up), 1, accessToken.value, FALSE, TRUE)

\* mutant: only a missing name parameter is refused, an empty one is not
GET_assistant_nullOnly(h, name, up) ==
    LET accessToken == BearerToken(h) IN
    IF NoAccessToken(accessToken)
    THEN Answer(401, NoAccessTokenProvided, 0, <<>>, FALSE, FALSE)
    ELSE IF name = UNDEF
    THEN Answer(400, ErrorBody("Assistant name is required", 0, ""), 0, <<>>, TRUE, FALSE)
    ELSE TryGet(accessToken, up,
                ErrorBody("Failed to fetch assistant", up.status, up.body), TRUE)

\* GET /api/assistant?name=
GET_assistant(h, name, up) ==
    LET accessToken == BearerToken(h) IN
    IF NoAccessToken(accessToken)
    THEN Answer(401, NoAccessTokenProvided, 0, <<>>, FALSE, FALSE)
    ELSE IF ~Truthy(name)
    THEN Answer(400, ErrorBody("Assistant name is required", 0, ""), 0, <<>>, TRUE, FALSE)
    ELSE TryGet(accessToken, up,
                ErrorBody("Failed to fetch assistant", up.status, up.body), TRUE)

\* GET /api/tools
GET_tools(h, up) ==
    LET accessToken == BearerToken(h) IN
    IF NoAccessToken(accessToken)
    THEN Answer(401, NoAccessTokenProvided, 0, <<>>, FALSE, FALSE)
    ELSE TryGet(accessToken, up, ErrorBody("Failed to fetch tools", 0, ""), FALSE)

\* GET /api/indexes
GET_indexes(h, up) ==
    LET accessToken == BearerToken(h) IN
    IF NoAccessToken(accessToken)
    THEN Answer(401, NoAccessTokenProvided, 0, <<>>, FALSE, FALSE)
    ELSE TryGet(accessToken, up, ErrorBody("Failed to fetch indexes", 0, ""), FALSE)

\* the HTTP methods each route file exports
Exports(route) == IF route = "/api/assistants" THEN {"GET", "POST"} ELSE {"GET"}

Routes == {"/api/assistants", "/api/assistant", "/api/tools", "/api/indexes"}

Methods == {"GET", "POST", "PUT"}

\* the framework's answer to a method the route does not export
MethodNotAllowed == Answer(405, NoBody, 0, <<>>, FALSE, FALSE)

\* the framework runs the handler the route exports for the method
Serve(route, method, h, name, reqBody, up) ==
    IF method \notin Exports(route) THEN MethodNotAllowed
    ELSE IF route = "/api/assistants" /\ method = "GET" THEN GET_assistants(h, up)
    ELSE IF route = "/api/assistants" /\ method = "POST" THEN POST_assistants(h, reqBody, up)
    ELSE IF route = "/api/assistant" THEN GET_assistant(h, name, up)
    ELSE IF route = "/api/tools" THEN GET_tools(h, up)
    ELSE GET_indexes(h, up)

\* no request served yet
HttpInit ==
    [route |-> "none", method |-> "none", header |-> NoHeader, name |-> UNDEF,
     reqBody |-> "json", up |-> UpstreamThrows, answer |-> MethodNotAllowed]

----------------------------------------------------------------------------
(* CreateAgentDialog *)

\* the text fields of the form; a value is a sequence of characters, " " a
\* space and "x" any other character
Fields == {"assistantName", "description", "systemPrompt"}

FieldValues == UNION { [1..n -> {" ", "x"}] : n \in 0..MaxFieldLen }

EmptyForm == [f \in Fields |-> <<>>]

\* what the upstream API may hold for the assistant being edited: nothing,
\* a description only, or every field
FetchedForms ==
    { EmptyForm,
      [EmptyForm EXCEPT !.description = <<"x">>],
      [f \in Fields |-> <<"x">>] }

RequiredMessage(f) ==
    IF f = "assistantName" THEN "Assistant Name is required"
    ELSE IF f = "description" THEN "Description is required"
    ELSE "System Prompt is required"

NoErrors == [f \in Fields |-> UNDEF]

\* mutant: only the assistant name is required
safeParse_nameOnly(formData) ==
    LET issues == { f \in {"assistantName"} : Len(formData[f]) < 1 } IN
    [success |-> issues = {},
     issues |-> issues,
     data |-> [f \in Fields |-> StripRight(StripLeft(formData[f]))]]

\* formSchema.safeParse(formData): z.string().min(1, message).trim() tests
\* the length of the text as typed and then trims it
safeParse(formData) ==
    LET issues == { f \in Fields : Len(formData[f]) < 1 } IN
    [success |-> issues = {},
     issues |-> issues,
     data |-> [f \in Fields |-> StripRight(StripLeft(formData[f]))]]

\* the name of the assistant being edited, and the header the dialog sends:
\* `Bearer ${accessToken}`
EditAssistantName == <<"x">>

DialogHeader == [present |-> TRUE, value |-> <<"Bearer", " ", "x">>]

\* the outcome of the last handleSubmit: whether a request was issued, in
\* which mode and with which method, the route's answer, and whether the
\* failure alert was shown
NoRequest ==
    [issued |-> FALSE, editMode |-> FALSE, method |-> "none",
     status |-> 0, upstreamCalls |-> 0, alerted |-> FALSE]

DialogInit ==
    [open |-> FALSE, editMode |-> FALSE, loaded |-> FALSE, formData |-> EmptyForm,
     validationErrors |-> NoErrors, loading |-> FALSE, submits |-> 0,
     last |-> NoRequest]

----------------------------------------------------------------------------
(* AssistantsList *)

assistantsPerPage == 10

\* the list as fetchAssistants leaves it for the authentication state auth,
\* the answer res of GET /api/assistants and k names in it; currentPage is
\* not touched
fetchAssistants(l, auth, res, k) ==
    IF ~auth
    THEN [l EXCEPT !.error = "Not authenticated", !.loading = FALSE]
    ELSE IF ~(res.status >= 200 /\ res.status <= 299)
    THEN [l EXCEPT !.error = "Failed to fetch assistants", !.assistants = 0,
                   !.loading = FALSE]
    ELSE [l EXCEPT !.assistants = k, !.error = UNDEF, !.loading = FALSE]

\* Math.ceil(assistants.length / assistantsPerPage)
totalPages(l) == (l.assistants + assistantsPerPage - 1) \div assistantsPerPage

startIndex(l) == (l.currentPage - 1) * assistantsPerPage

endIndex(l) == startIndex(l) + assistantsPerPage

\* assistants.slice(startIndex, endIndex), as the positions it holds
currentAssistants(l) ==
    { i \in 1..l.assistants : startIndex(l) < i /\ i <= endIndex(l) }

\* the list is rendered: none of the early returns of the component applies
Displayed(l) ==
    l.isAuthenticated /\ ~l.loading /\ l.error = UNDEF /\ l.assistants > 0

\* the answers GET /api/assistants may give the list, by the upstream answer
ListAnswers == { GET_assistants(DialogHeader, up) : up \in Upstreams }

\* the component when mounted
ListInit ==
    [assistants |-> 0, loading |-> TRUE, error |-> UNDEF, currentPage |-> 1,
     isAuthenticated |-> FALSE, editDialogOpen |-> FALSE, reloads |-> 0]

----------------------------------------------------------------------------
(* The state machine *)

\* call: the run of the jwt callback whose result has not been written to
\* the session cookie yet; guard: the middleware run whose response has not
\* been sent yet
IdleCall ==
    [op |-> "none", arg |-> DefaultToken, account |-> NoAccount, idp |-> NoExchange,
     at |-> 0, end |-> 0,
     result |-> JwtResult(Returned(DefaultToken, 0), FALSE, DefaultToken)]

IdleGuard == [op |-> "none", pathname |-> <<>>, hasToken |-> FALSE,
              intercepted |-> FALSE, response |-> NextResponse_next]

Idle == call.op = "none" /\ guard.op = "none"

\* RefreshErrorHandler when mounted: no session yet, signIn not called
HandlerInit == [session |-> NullSession, updates |-> 0, signIns |-> 0]

\* the requests that materialize the session at the same time
Procs == {"A", "B"}

IdleReq ==
    [pc |-> "idle", arg |-> DefaultToken, at |-> 0, end |-> 0, idp |-> NoExchange,
     result |-> JwtResult(Returned(DefaultToken, 0), FALSE, DefaultToken)]

\* no request in flight; the identity provider accepts the refresh token it
\* issued at sign-in
ConcInit == [accepts |-> {"r1"}, writer |-> "none", reqs |-> [p \in Procs |-> IdleReq]]

ClientInit ==
    /\ handler = HandlerInit
    /\ conc = ConcInit
    /\ http = HttpInit
    /\ dialog = DialogInit
    /\ list = ListInit

Init ==
    /\ now = StartNow
    /\ token = DefaultToken
    /\ signedIn = FALSE
    /\ call = IdleCall
    /\ guard = IdleGuard
    /\ ClientInit

\* a session cookie holding any record: the jwt callback and
\* refreshAccessToken as functions of their argument
InitAny ==
    /\ now = StartNow
    /\ token \in RecordSet
    /\ signedIn = TRUE
    /\ call = IdleCall
    /\ guard = IdleGuard
    /\ ClientInit

MaxNow == StartNow + MaxTicks * TickMs

Latencies == {d * TickMs : d \in 0 .. MaxLatencyTicks}

\* one run of the jwt callback on record t.  The token endpoint answers, and
\* time passes, only on the path that sends it a request.
Invoke(op, t, account) ==
    LET sends == jwt(t, account, NoExchange, now, now).fetches > 0 IN
    \E idp \in (IF sends THEN IdpOutcomes ELSE {NoExchange}),
       lat \in (IF sends THEN Latencies ELSE {0}) :
        /\ now + lat <= MaxNow
        /\ call' = [op |-> op, arg |-> t, account |-> account, idp |-> idp,
                    at |-> now, end |-> now + lat,
                    result |-> jwt(t, account, idp, now, now + lat)]
        /\ now' = now + lat
        /\ UNCHANGED <<token, signedIn, guard>>
        /\ UNCHANGED <<clientVars, concVars, proxyVars, listVars>>

\* the OAuth callback: jwt({token, account}) with the provider's token set.
\* The callback takes whatever token its caller passes: the token of a new
\* session, or the record of the session the user signs in again from.
SignIn ==
    /\ Idle
    /\ \E account \in Accounts, t \in {DefaultToken, token} :
           Invoke("signIn", t, account)

\* any later request that needs the session: jwt({token}) on the stored record
Materialize ==
    /\ Idle
    /\ signedIn
    /\ Invoke("materialize", token, NoAccount)

\* session strategy "jwt": the record the callback returned becomes the
\* session cookie; a callback that threw leaves the cookie as it was
Persist ==
    /\ call.op # "none"
    /\ token' = IF call.result.thrown THEN token ELSE call.result.rec
    /\ signedIn' = (signedIn \/ ~call.result.thrown)
    /\ call' = IdleCall
    /\ UNCHANGED <<now, guard>>
    /\ UNCHANGED <<clientVars, concVars, proxyVars, listVars>>

Tick ==
    /\ Idle
    /\ now + TickMs <= MaxNow
    /\ now' = now + TickMs
    /\ UNCHANGED <<token, signedIn, call, guard>>
    /\ UNCHANGED <<clientVars, concVars, proxyVars, listVars>>

\* a request: intercepted says whether config.matcher hands it to the
\* middleware, response is what the middleware returns for it; getToken gives
\* null when there is no cookie or it does not verify
Request ==
    /\ Idle
    /\ \E pathname \in Paths, hasToken \in BOOLEAN :
        /\ hasToken => signedIn
        /\ guard' = [op |-> "middleware", pathname |-> pathname, hasToken |-> hasToken,
                     intercepted |-> matcher(pathname),
                     response |-> middleware(pathname, hasToken)]
        /\ UNCHANGED <<now, token, signedIn, call>>
        /\ UNCHANGED <<clientVars, concVars, proxyVars, listVars>>

\* the middleware's response is sent
Respond ==
    /\ guard.op # "none"
    /\ guard' = IdleGuard
    /\ UNCHANGED <<now, token, signedIn, call>>
    /\ UNCHANGED <<clientVars, concVars, proxyVars, listVars>>

Next == SignIn \/ Materialize \/ Persist \/ Tick \/ Request \/ Respond

Spec == Init /\ [][Next]_vars

SpecAny == InitAny /\ [][Next]_vars

----------------------------------------------------------------------------
(* Concurrent requests of one user: each reads the session cookie, runs the
   jwt callback and writes the returned record back; no lock is held *)

\* the session left by a sign-in one second ago: the record the jwt callback
\* returned then for the provider's token set
SignedInRecords ==
    { jwt(DefaultToken, account, NoExchange,
          StartNow - MsPerSecond, StartNow - MsPerSecond).rec :
        account \in { a \in Accounts : a.expires_in = Num(1) } }

InitConc ==
    /\ now = StartNow
    /\ token \in SignedInRecords
    /\ signedIn = TRUE
    /\ call = IdleCall
    /\ guard = IdleGuard
    /\ ClientInit

\* what the token endpoint may answer to a request carrying refresh token
\* rt: a refresh token it does not accept (any more) is rejected
IdpAnswers(rt) ==
    IF rt \in conc.accepts
    THEN IdpOutcomes
    ELSE { IdpOutcome("ok", FALSE, "object", UNDEF, UNDEF, Undefined) }

\* the refresh tokens the endpoint accepts after answering: a new refresh
\* token in the answer replaces the one used (rotation)
IdpAccepts(rt, idp) ==
    IF idp.network = "ok" /\ idp.ok /\ idp.body = "object" /\ Truthy(idp.refresh_token)
    THEN (conc.accepts \ {rt}) \cup {idp.refresh_token}
    ELSE conc.accepts

\* request p reads the cookie and runs the jwt callback up to its first
\* await: it returns at once, or it has sent the token-exchange request
Read(p) ==
    /\ conc.reqs[p].pc = "idle"
    /\ LET r == jwt(token, NoAccount, NoExchange, now, now)
           sends == r.fetches > 0
       IN  conc' = [conc EXCEPT !.reqs[p] =
                       [pc |-> IF sends THEN "awaiting" ELSE "done",
                        arg |-> token, at |-> now, end |-> now,
                        idp |-> NoExchange, result |-> r]]
    /\ UNCHANGED serverVars
    /\ UNCHANGED <<clientVars, proxyVars, listVars>>

\* the token endpoint answers request p and the callback runs to its end
Exchange(p) ==
    /\ conc.reqs[p].pc = "awaiting"
    /\ LET q == conc.reqs[p]
           rt == q.result.refreshArg.refreshToken
       IN  \E idp \in IdpAnswers(rt) :
               conc' = [conc EXCEPT
                          !.accepts = IdpAccepts(rt, idp),
                          !.reqs[p] = [q EXCEPT !.pc = "done", !.end = now, !.idp = idp,
                                         !.result = jwt(q.arg, NoAccount, idp, q.at, now)]]
    /\ UNCHANGED serverVars
    /\ UNCHANGED <<clientVars, proxyVars, listVars>>

\* the record request p's callback returned becomes the session cookie
WriteBack(p) ==
    /\ conc.reqs[p].pc = "done"
    /\ token' = IF conc.reqs[p].result.thrown THEN token ELSE conc.reqs[p].result.rec
    /\ conc' = [conc EXCEPT !.reqs[p].pc = "written", !.writer = p]
    /\ UNCHANGED <<now, signedIn, call, guard>>
    /\ UNCHANGED <<clientVars, proxyVars, listVars>>

NextConc ==
    \/ Tick
    \/ \E p \in Procs : Read(p)
    \/ \E p \in Procs : Exchange(p)
    \/ \E p \in Procs : WriteBack(p)

SpecConc == InitConc /\ [][NextConc]_vars

----------------------------------------------------------------------------
(* RefreshErrorHandler under a stream of session updates *)

\* the SessionProvider delivers a session: the view of some record, in a new
\* object; the component renders and its effect runs
SessionUpdate ==
    /\ handler.updates < MaxSessionUpdates
    /\ \E t \in RecordSet :
        LET next == SessionObject(handler.updates + 1, t)
            fires == EffectRuns(handler.session, next) /\ EffectSignsIn(next)
        IN  handler' = [session |-> next,
                        updates |-> handler.updates + 1,
                        signIns |-> handler.signIns + (IF fires THEN 1 ELSE 0)]
    /\ UNCHANGED <<serverVars, concVars, proxyVars, dialog, listVars>>

\* the session is lost (signed out, or the session request fails)
SessionCleared ==
    /\ handler.session # NullSession
    /\ handler' = [handler EXCEPT !.session = NullSession]
    /\ UNCHANGED <<serverVars, concVars, proxyVars, dialog, listVars>>

NextHandler == SessionUpdate \/ SessionCleared

SpecHandler == Init /\ [][NextHandler]_vars

----------------------------------------------------------------------------
(* The proxy routes under arbitrary requests and upstream answers *)

\* the request served and its answer; inputs a handler does not read are
\* held at their defaults
Served(route, method, h, name, reqBody, up) ==
    [route |-> route, method |-> method, header |-> h, name |-> name,
     reqBody |-> reqBody, up |-> up,
     answer |-> Serve(route, method, h, name, reqBody, up)]

GetAssistants ==
    /\ http = HttpInit
    /\ \E h \in Headers, up \in Upstreams :
        http' = Served("/api/assistants", "GET", h, UNDEF, "json", up)
    /\ UNCHANGED <<serverVars, clientVars, concVars, listVars>>

PostAssistants ==
    /\ http = HttpInit
    /\ \E h \in Headers, b \in RequestBodies, up \in Upstreams :
        http' = Served("/api/assistants", "POST", h, UNDEF, b, up)
    /\ UNCHANGED <<serverVars, clientVars, concVars, listVars>>

GetAssistant ==
    /\ http = HttpInit
    /\ \E h \in Headers, name \in Names, up \in Upstreams :
        http' = Served("/api/assistant", "GET", h, name, "json", up)
    /\ UNCHANGED <<serverVars, clientVars, concVars, listVars>>

GetTools ==
    /\ http = HttpInit
    /\ \E h \in Headers, up \in Upstreams :
        http' = Served("/api/tools", "GET", h, UNDEF, "json", up)
    /\ UNCHANGED <<serverVars, clientVars, concVars, listVars>>

GetIndexes ==
    /\ http = HttpInit
    /\ \E h \in Headers, up \in Upstreams :
        http' = Served("/api/indexes", "GET", h, UNDEF, "json", up)
    /\ UNCHANGED <<serverVars, clientVars, concVars, listVars>>

\* a request with a method the route does not export
OtherMethod ==
    /\ http = HttpInit
    /\ \E route \in Routes : \E method \in Methods \ Exports(route), h \in Headers :
        http' = Served(route, method, h, UNDEF, "json", UpstreamThrows)
    /\ UNCHANGED <<serverVars, clientVars, concVars, listVars>>

\* the answer has been sent
Reply ==
    /\ http # HttpInit
    /\ http' = HttpInit
    /\ UNCHANGED <<serverVars, clientVars, concVars, listVars>>

NextProxy ==
    \/ GetAssistants
    \/ PostAssistants
    \/ GetAssistant
    \/ GetTools
    \/ GetIndexes
    \/ OtherMethod
    \/ Reply

SpecProxy == Init /\ [][NextProxy]_vars

----------------------------------------------------------------------------
(* CreateAgentDialog in use *)

\* the create dialog or the edit dialog of an assistant is opened
OpenDialog ==
    /\ ~dialog.open
    /\ \E editMode \in BOOLEAN :
        dialog' = [dialog EXCEPT !.open = TRUE, !.editMode = editMode, !.loaded = FALSE]
    /\ UNCHANGED <<serverVars, concVars, proxyVars, handler, listVars>>

\* onOpenChange(false): the dialog is dismissed
CloseDialog ==
    /\ dialog.open
    /\ dialog' = [dialog EXCEPT !.open = FALSE, !.validationErrors = NoErrors]
    /\ UNCHANGED <<serverVars, concVars, proxyVars, handler, listVars>>

\* fetchAssistantData(editAssistantName), started by the effect when the edit
\* dialog opens: a 404 leaves the form alone, any other failure and an empty
\* answer set the defaults, an answer with data prefills the form
FetchAssistantData ==
    /\ dialog.open /\ dialog.editMode /\ ~dialog.loaded
    /\ \E res \in { Serve("/api/assistant", "GET", DialogHeader, "n", "json", up) :
                      up \in Upstreams },
          data \in FetchedForms :
        LET defaults == [EmptyForm EXCEPT !.assistantName = EditAssistantName]
            prefilled == [data EXCEPT !.assistantName =
                            IF data.assistantName # <<>> THEN data.assistantName
                            ELSE EditAssistantName]
        IN  dialog' = [dialog EXCEPT
                         !.loaded = TRUE,
                         !.loading = FALSE,
                         !.formData = IF res.status = 404 THEN dialog.formData
                                      ELSE IF res.status # 200 THEN defaults
                                      ELSE prefilled]
    /\ UNCHANGED <<serverVars, concVars, proxyVars, handler, listVars>>

HandleInputChange ==
    /\ dialog.open
    /\ \E field \in Fields, value \in FieldValues :
        dialog' = [dialog EXCEPT !.formData[field] = value]
    /\ UNCHANGED <<serverVars, concVars, proxyVars, handler, listVars>>

\* handleSubmit, to its end: validation, the request to /api/assistants and
\* the reaction to the route's answer
HandleSubmit ==
    /\ dialog.open
    /\ dialog.submits < MaxSubmits
    /\ LET validationResult == safeParse(dialog.formData) IN
       IF ~validationResult.success
       THEN dialog' = [dialog EXCEPT
                         !.validationErrors =
                             [f \in Fields |-> IF f \in validationResult.issues
                                               THEN RequiredMessage(f) ELSE UNDEF],
                         !.submits = dialog.submits + 1,
                         !.last = NoRequest]
       ELSE \E up \in Upstreams :
               LET method == IF dialog.editMode THEN "PUT" ELSE "POST"
                   response == Serve("/api/assistants", method, DialogHeader,
                                     UNDEF, "json", up)
                   ok == response.status >= 200 /\ response.status <= 299
               IN  dialog' = [dialog EXCEPT
                                !.validationErrors = NoErrors,
                                !.submits = dialog.submits + 1,
                                !.loading = FALSE,
                                !.open = IF ok THEN FALSE ELSE dialog.open,
                                !.formData = IF ok THEN EmptyForm ELSE dialog.formData,
                                !.last = [issued |-> TRUE, editMode |-> dialog.editMode,
                                          method |-> method,
                                          status |-> response.status,
                                          upstreamCalls |-> response.upstreamCalls,
                                          alerted |-> ~ok]]
    /\ UNCHANGED <<serverVars, concVars, proxyVars, handler, listVars>>

NextDialog ==
    \/ OpenDialog
    \/ CloseDialog
    \/ FetchAssistantData
    \/ HandleInputChange
    \/ HandleSubmit

SpecDialog == Init /\ [][NextDialog]_vars

----------------------------------------------------------------------------
(* AssistantsList in use *)

\* the effect on [accessToken, isAuthenticated]: the first render and every
\* change of the session run fetchAssistants
SessionChanged ==
    /\ list.reloads < MaxReloads
    /\ \E auth \in BOOLEAN, res \in ListAnswers, k \in 0..MaxAssistants :
        list' = [fetchAssistants(list, auth, res, k) EXCEPT
                    !.isAuthenticated = auth, !.reloads = list.reloads + 1]
    /\ UNCHANGED <<serverVars, clientVars, concVars, proxyVars>>

\* the Retry button of the error view
Retry ==
    /\ list.isAuthenticated /\ ~list.loading /\ list.error # UNDEF
    /\ list.reloads < MaxReloads
    /\ \E res \in ListAnswers, k \in 0..MaxAssistants :
        list' = [fetchAssistants(list, TRUE, res, k) EXCEPT
                    !.reloads = list.reloads + 1]
    /\ UNCHANGED <<serverVars, clientVars, concVars, proxyVars>>

\* handleEdit on an assistant of the page shown: the edit dialog opens when
\* the assistant's details could be fetched
HandleEdit ==
    /\ Displayed(list)
    /\ currentAssistants(list) # {}
    /\ \E result \in BOOLEAN :
        list' = [list EXCEPT !.editDialogOpen = (result \/ list.editDialogOpen)]
    /\ UNCHANGED <<serverVars, clientVars, concVars, proxyVars>>

\* onEditComplete of the edit dialog: reload the list, close the dialog
HandleEditComplete ==
    /\ list.editDialogOpen
    /\ list.reloads < MaxReloads
    /\ \E res \in ListAnswers, k \in 0..MaxAssistants :
        list' = [fetchAssistants(list, list.isAuthenticated, res, k) EXCEPT
                    !.editDialogOpen = FALSE, !.reloads = list.reloads + 1]
    /\ UNCHANGED <<serverVars, clientVars, concVars, proxyVars>>

\* the pagination controls are rendered when there is more than one page
PaginationShown == Displayed(list) /\ totalPages(list) > 1

\* handlePageChange(Math.max(1, currentPage - 1))
PreviousPage ==
    /\ PaginationShown
    /\ list' = [list EXCEPT !.currentPage =
                   IF list.currentPage - 1 > 1 THEN list.currentPage - 1 ELSE 1]
    /\ UNCHANGED <<serverVars, clientVars, concVars, proxyVars>>

\* handlePageChange(Math.min(totalPages, currentPage + 1))
NextPage ==
    /\ PaginationShown
    /\ list' = [list EXCEPT !.currentPage =
                   IF list.currentPage + 1 < totalPages(list)
                   THEN list.currentPage + 1 ELSE totalPages(list)]
    /\ UNCHANGED <<serverVars, clientVars, concVars, proxyVars>>

\* handlePageChange(page) from a numbered link
SelectPage ==
    /\ PaginationShown
    /\ \E page \in 1..totalPages(list) :
        list' = [list EXCEPT !.currentPage = page]
    /\ UNCHANGED <<serverVars, clientVars, concVars, proxyVars>>

NextList ==
    \/ SessionChanged
    \/ Retry
    \/ HandleEdit
    \/ HandleEditComplete
    \/ PreviousPage
    \/ NextPage
    \/ SelectPage

SpecList == Init /\ [][NextList]_vars

----------------------------------------------------------------------------
(* Properties *)

\* the jwt callback has run and returned a record
JwtReturned == call.op # "none" /\ ~call.result.thrown

\* refreshAccessToken has run inside the last jwt callback
RefreshRan == call.op # "none" /\ call.result.refreshed

\* timestamp e lies after time t
InFuture(e, t) == e.k = "num" /\ e.v > t

\* record r carries no credential
NoCredentials(r) ==
    /\ r.accessToken = UNDEF
    /\ r.accessTokenExpires = Undefined
    /\ r.refreshToken = UNDEF

\* record r is the fail-closed record
IsFailed(r) == r.error = RefreshAccessTokenError /\ NoCredentials(r)

\* the token endpoint answered with a success status and a JSON object
IdpSucceeded(idp) == idp.network = "ok" /\ idp.ok /\ idp.body = "object"

\* the exchange failed: transport error, non-success status or unparsable body
IdpFailed(idp) == idp.network = "error" \/ ~idp.ok \/ idp.body = "unparsable"

\* a request went to the token endpoint and it answered with success
RefreshSucceeded ==
    /\ RefreshRan
    /\ Truthy(call.result.refreshArg.refreshToken)
    /\ IdpSucceeded(call.idp)

\* C1: after any materialize exactly one of (a) accessToken present and
\* accessTokenExpiresAt in the future, (b) error = refreshFailed holds of the
\* returned record.
C1_ExactlyOneOfValidOrFailed ==
    JwtReturned =>
        LET r == call.result.rec
            valid == r.accessToken # UNDEF /\ InFuture(r.accessTokenExpires, call.end)
            failed == r.error = RefreshAccessTokenError
        IN  valid # failed

\* C2: a record with error set carries no credential, in the session cookie
\* and in every record the jwt callback returns.
C2_ErrorMeansNoCredentials ==
    /\ token.error # UNDEF => NoCredentials(token)
    /\ JwtReturned => (call.result.rec.error # UNDEF => NoCredentials(call.result.rec))

\* C3: materialize of a record whose accessTokenExpiresAt is in the future,
\* without sign-in tokens, returns the record unchanged and sends no
\* token-exchange request.
C3_FastPathUnchanged ==
    ( /\ call.op # "none"
      /\ ~Truthy(call.account.access_token)
      /\ InFuture(call.arg.accessTokenExpires, call.at) )
    => /\ ~call.result.thrown
       /\ call.result.rec = call.arg
       /\ call.result.fetches = 0
       /\ ~call.result.refreshed
       /\ call.end = call.at

C3_Witness ==
    /\ call.op = "materialize"
    /\ InFuture(call.arg.accessTokenExpires, call.at)
    /\ call.arg.accessToken # UNDEF
    /\ call.arg.refreshToken = "r1"
    /\ call.result.rec = call.arg

\* C4: refresh of a record whose refreshToken is absent or empty returns the
\* fail-closed record and sends no token-exchange request.
C4_NoRefreshTokenFailsClosed ==
    (RefreshRan /\ call.result.refreshArg.refreshToken \in {UNDEF, ""})
    => /\ ~call.result.thrown
       /\ IsFailed(call.result.rec)
       /\ call.result.fetches = 0

C4_Witness ==
    /\ RefreshRan
    /\ call.result.refreshArg.refreshToken = ""
    /\ call.result.refreshArg.accessToken # UNDEF
    /\ IsFailed(call.result.rec)

\* C5: with a non-empty refreshToken every failed exchange (non-success
\* status, transport exception, parse exception with either status) gives the
\* one fail-closed record.
C5_EveryFailureFailsClosed ==
    ( /\ RefreshRan
      /\ Truthy(call.result.refreshArg.refreshToken)
      /\ IdpFailed(call.idp) )
    => /\ ~call.result.thrown
       /\ call.result.rec =
              CustomJWT(UNDEF, Undefined, UNDEF, RefreshAccessTokenError)

C5_Witness ==
    /\ RefreshRan
    /\ Truthy(call.result.refreshArg.refreshToken)
    /\ ~call.idp.ok /\ call.idp.body = "object"
    /\ call.result.fetches = 1
    /\ IsFailed(call.result.rec)

\* C6: a successful refresh returns accessToken = the response's
\* access_token, accessTokenExpiresAt = time of the call + expires_in*1000,
\* and error cleared, whatever error the input record carried.
C6_SuccessStampsAndClearsError ==
    RefreshSucceeded =>
        /\ ~call.result.thrown
        /\ call.result.rec.accessToken = call.idp.access_token
        /\ call.idp.expires_in.k = "num" =>
               call.result.rec.accessTokenExpires =
                   Num(call.end + call.idp.expires_in.v * 1000)
        /\ call.result.rec.error = UNDEF

\* C7: a successful refresh stores the response's refresh_token when it is
\* non-empty and keeps the input's refreshToken otherwise; the record is
\* never left without a refreshToken.
C7_RefreshTokenRotatedOrKept ==
    RefreshSucceeded =>
        /\ ~call.result.thrown
        /\ call.result.rec.refreshToken =
               IF call.idp.refresh_token \notin {UNDEF, ""}
               THEN call.idp.refresh_token
               ELSE call.result.refreshArg.refreshToken
        /\ call.result.rec.refreshToken \notin {UNDEF, ""}

C7_Witness ==
    /\ RefreshSucceeded
    /\ call.idp.refresh_token = ""
    /\ call.result.refreshArg.refreshToken = "r1"
    /\ call.result.rec.refreshToken = "r1"

\* C8: refresh never throws: whatever the identity provider does it returns
\* a record, which is a refreshed record or the fail-closed record.
C8_RefreshNeverThrows ==
    RefreshRan =>
        /\ ~call.result.thrown
        /\ \/ IsFailed(call.result.rec)
           \/ /\ RefreshSucceeded
              /\ call.result.rec.accessToken = call.idp.access_token
              /\ call.result.rec.refreshToken \notin {UNDEF, ""}

C8_Witness ==
    /\ RefreshRan
    /\ call.idp.network = "error"
    /\ ~call.result.thrown
    /\ IsFailed(call.result.rec)

\* C9: materialize with fresh sign-in tokens returns accessToken = the
\* issued token, accessTokenExpiresAt = now + expiresIn*1000, refreshToken =
\* the issued one or "", and error cleared.
C9_SignInStampsAndClearsError ==
    (call.op # "none" /\ Truthy(call.account.access_token)) =>
        /\ ~call.result.thrown
        /\ call.result.rec.accessToken = call.account.access_token
        /\ call.result.rec.accessTokenExpires =
               JsPlus(call.at, JsTimes(JsNumber(call.account.expires_in), 1000))
        /\ call.result.rec.refreshToken =
               IF call.account.refresh_token = UNDEF THEN "" ELSE call.account.refresh_token
        /\ call.result.rec.error = UNDEF

\* the path is the API prefix itself or lies below it
UnderApiPrefix(p) == p = ApiPrefix \/ StartsWith(p, ApiPrefix \o <<"/">>)

\* C10: the Route Guard allows every request under the API prefix, with or
\* without a session token, and never redirects it.
C10_ApiAlwaysAllowed ==
    (guard.op = "middleware" /\ UnderApiPrefix(guard.pathname))
    => guard.response = NextResponse_next

C10_Witness ==
    /\ guard.op = "middleware"
    /\ guard.pathname = P_api_assistants
    /\ ~guard.hasToken
    /\ guard.response.kind = "next"

\* C11: for a request the Route Guard evaluates whose path is not under the
\* API prefix the decision is redirect to /api/auth/signin when there is no
\* session token and allow when there is one.
C11_PageNeedsSession ==
    (guard.op = "middleware" /\ guard.intercepted /\ ~UnderApiPrefix(guard.pathname))
    => IF guard.hasToken
       THEN guard.response = NextResponse_next
       ELSE guard.response = NextResponse_redirect(<<"/", "a", "p", "i", "/", "a", "u", "t", "h", "/", "s", "i", "g", "n", "i", "n">>)

C11_Witness ==
    /\ guard.op = "middleware"
    /\ guard.intercepted
    /\ guard.pathname = P_dashboard
    /\ ~guard.hasToken
    /\ guard.response.kind = "redirect"

\* the paths the guard is meant to leave alone
IsStaticAsset(p) == StartsWith(p, <<"/", "_", "n", "e", "x", "t", "/", "s", "t", "a", "t", "i", "c", "/">>)
IsImageAsset(p) == p = P_image \/ StartsWith(p, <<"/", "_", "n", "e", "x", "t", "/", "i", "m", "a", "g", "e", "/">>)
IsFavicon(p) == p = P_favicon

\* C12: every request whose path is not an API route, a static asset, an
\* image-optimization asset or the favicon is intercepted by the Route Guard
\* and, without a session, redirected to sign-in.
C12_EveryPageIntercepted ==
    ( /\ guard.op = "middleware"
      /\ ~UnderApiPrefix(guard.pathname)
      /\ ~IsStaticAsset(guard.pathname)
      /\ ~IsImageAsset(guard.pathname)
      /\ ~IsFavicon(guard.pathname) )
    => /\ guard.intercepted
       /\ ~guard.hasToken => guard.response.kind = "redirect"

\* C13: signIn is triggered when the session's error changes to
\* refreshFailed and is not triggered again by a later session update in
\* which the error is still refreshFailed.
C13_OneSignInPerTransition ==
    [][ /\ ( handler.session.error # RefreshAccessTokenError
            /\ handler'.session.error = RefreshAccessTokenError )
           => handler'.signIns = handler.signIns + 1
        /\ ( handler.session.error = RefreshAccessTokenError
            /\ handler'.session.error = RefreshAccessTokenError )
           => handler'.signIns = handler.signIns ]_vars

\* record r, returned at time t, is a usable token: accessToken present,
\* not expired, no error
Usable(r, t) ==
    r.accessToken # UNDEF /\ InFuture(r.accessTokenExpires, t) /\ r.error = UNDEF

\* C14: when requests materialize the same expired record concurrently,
\* each refresh ends in a fresh usable token or in the fail-closed record, and
\* the record persisted satisfies the record invariant, under every
\* interleaving and write-back order, also when refresh tokens rotate.
C14_ConcurrentRefreshConsistent ==
    /\ \A p \in Procs :
           LET q == conc.reqs[p] IN
           (q.pc \in {"done", "written"} /\ q.result.refreshed)
           => /\ ~q.result.thrown
              /\ Usable(q.result.rec, q.end) \/ IsFailed(q.result.rec)
    /\ conc.writer # "none"
       => LET w == conc.reqs[conc.writer] IN
          /\ token = w.result.rec
          /\ Usable(token, w.end) \/ IsFailed(token)

\* requests p and q have both run refreshAccessToken on copies of one record
RefreshedSameRecord(p, q) ==
    /\ p # q
    /\ conc.reqs[p].pc \in {"done", "written"} /\ conc.reqs[p].result.refreshed
    /\ conc.reqs[q].pc \in {"done", "written"} /\ conc.reqs[q].result.refreshed
    /\ conc.reqs[p].result.refreshArg = conc.reqs[q].result.refreshArg

\* C15: refreshAccessToken called twice on two copies of the same record
\* yields two valid records: each is a usable token or the fail-closed
\* record, each is determined by its own call alone (its argument, its
\* answer, its clock), and the argument is as it was passed in.
C15_TwoRefreshesIndependent ==
    \A p \in Procs : \A q \in Procs :
        RefreshedSameRecord(p, q)
        => LET r == conc.reqs[p] IN
           /\ r.result.refreshArg = r.arg
           /\ r.result.rec = refreshAccessToken(r.arg, r.idp, r.end).rec
           /\ Usable(r.result.rec, r.end) \/ IsFailed(r.result.rec)

\* a handler of the route has served the last request
HandlerRan == http.route # "none" /\ http.method \in Exports(http.route)

\* the header carries no token after "Bearer ": it is absent, or no
\* "Bearer " in it is followed by anything but spaces
CarriesNoToken(h) ==
    \/ ~h.present
    \/ ~\E i \in 1..Len(h.value) :
           /\ SeparatorAt(h.value, i)
           /\ \E j \in (i + 2)..Len(h.value) : h.value[j] # " "

\* the header is "Bearer <token>" with a token free of spaces
BearerPresent(h) ==
    /\ h.present
    /\ Len(h.value) >= 3
    /\ SeparatorAt(h.value, 1)
    /\ \A j \in 3..Len(h.value) : h.value[j] = "x"

\* C16: each of the five proxy handlers answers a request without an
\* Authorization header, or with one carrying no token after "Bearer ", with
\* 401 {error: "No access token provided"}; no upstream request is made and
\* neither the name parameter nor the request body is looked at before.
C16_NoTokenAnswered401 ==
    (HandlerRan /\ CarriesNoToken(http.header))
    => /\ http.answer.status = 401
       /\ http.answer.body = NoAccessTokenProvided
       /\ http.answer.upstreamCalls = 0
       /\ ~http.answer.nameRead
       /\ ~http.answer.bodyRead

\* POST /api/assistants with the header "Bearer " and a body that is not
\* JSON has been answered 401
C16_Witness ==
    /\ http.route = "/api/assistants" /\ http.method = "POST"
    /\ http.header = [present |-> TRUE, value |-> <<"Bearer", " ">>]
    /\ http.reqBody = "invalid"
    /\ http.answer.status = 401

\* a handler has called the upstream API for a request with a bearer token
UpstreamCalled == HandlerRan /\ BearerPresent(http.header) /\ http.answer.upstreamCalls = 1

\* the answer is 500 {error: message}
Answered500 == http.answer.status = 500 /\ http.answer.body.kind = "error"

\* the upstream API answered with a non-success status
UpstreamNonSuccess == http.up.network = "ok" /\ ~ResponseOk(http.up)

C18_MissingNameIs400 ==
    (HandlerRan /\ http.route = "/api/assistant" /\ ~Truthy(http.name))
    => /\ BearerPresent(http.header)
          => /\ http.answer.status = 400
             /\ http.answer.body = ErrorBody("Assistant name is required", 0, "")
             /\ http.answer.upstreamCalls = 0
       /\ CarriesNoToken(http.header) => http.answer.status = 401

\* GET /api/assistant?name= (empty) with a bearer token has been answered 400
C18_Witness ==
    /\ http.route = "/api/assistant" /\ http.method = "GET"
    /\ BearerPresent(http.header)
    /\ http.name = ""
    /\ http.answer.status = 400
    /\ http.answer.upstreamCalls = 0

\* C19: an update submitted from the dialog in edit mode is sent with a
\* method the /api/assistants route implements, so the POST handler serves
\* it and the upstream create/update call is made.
C19_EditReachesUpstream ==
    (dialog.last.issued /\ dialog.last.editMode)
    => /\ dialog.last.method \in Exports("/api/assistants")
       /\ dialog.last.status # 405
       /\ dialog.last.upstreamCalls = 1

\* the fields of the form that are empty
EmptyFields(formData) == { f \in Fields : formData[f] = <<>> }

\* the step is a run of handleSubmit
Submitted == dialog'.submits = dialog.submits + 1

\* C20: when handleSubmit finds the assistant name, the description or the
\* system prompt empty, the validation message of each failing field is
\* set, no request to /api/assistants is issued, the dialog stays open and
\* the form data is unchanged; a request is issued only after validation
\* succeeded.
C20_ValidationGatesRequest ==
    [][ Submitted
        => /\ EmptyFields(dialog.formData) # {}
              => /\ \A f \in EmptyFields(dialog.formData) :
                       dialog'.validationErrors[f] = RequiredMessage(f)
                 /\ ~dialog'.last.issued
                 /\ dialog'.open
                 /\ dialog'.formData = dialog.formData
           /\ dialog'.last.issued => EmptyFields(dialog.formData) = {}
      ]_vars

\* a form with a name and no description has been submitted and refused
C20_Witness ==
    /\ dialog.submits >= 1
    /\ ~dialog.last.issued
    /\ dialog.open
    /\ dialog.formData.assistantName = <<"x">>
    /\ dialog.formData.description = <<>>
    /\ dialog.validationErrors.description = "Description is required"
    /\ dialog.validationErrors.assistantName = UNDEF

\* C21: a token-exchange request is sent only by a materialize without
\* sign-in tokens whose record has accessTokenExpiresAt absent or not in the
\* future; a materialize with sign-in tokens never calls refresh, an
\* unexpired record is never refreshed, and one materialize sends at most
\* one request.
C21_RefreshOnlyWhenExpired ==
    call.op # "none"
    => /\ call.result.fetches <= 1
       /\ call.result.fetches > 0
          => /\ ~Truthy(call.account.access_token)
             /\ ~InFuture(call.arg.accessTokenExpires, call.at)
       /\ Truthy(call.account.access_token) => ~call.result.refreshed
       /\ InFuture(call.arg.accessTokenExpires, call.at)
          /\ ~Truthy(call.account.access_token) => ~call.result.refreshed

\* the jwt callback has run, without sign-in tokens, on a stored record that
\* an earlier run returned with error = RefreshAccessTokenError
MaterializedFailedSession ==
    /\ call.op # "none"
    /\ ~Truthy(call.account.access_token)
    /\ call.arg.error = RefreshAccessTokenError

\* C22: refresh failure is terminal: every later materialize, without
\* sign-in tokens, of a record returned with error = RefreshAccessTokenError
\* returns again the error and no credentials and sends no token-exchange
\* request; only a sign-in gives a record with an accessToken again.
C22_RefreshFailureTerminal ==
    /\ MaterializedFailedSession
       => /\ ~call.result.thrown
          /\ IsFailed(call.result.rec)
          /\ call.result.fetches = 0
    /\ ( /\ call.op # "none"
         /\ call.arg.error = RefreshAccessTokenError
         /\ call.result.rec.accessToken # UNDEF )
       => Truthy(call.account.access_token)

\* C23: whenever page selections and list reloads leave a non-empty list,
\* currentPage lies within 1..ceil(assistants.length / 10) and the page
\* slice shown is not empty.
C23_CurrentPageInRange ==
    (list.error = UNDEF /\ ~list.loading /\ list.assistants > 0)
    => /\ list.currentPage >= 1
       /\ list.currentPage <= totalPages(list)
       /\ currentAssistants(list) # {}

====
